---------------------------- MODULE Spec2Model ----------------------------
(***************************************************************************)
(* The two client-side stores of QuickFix:                                 *)
(*   - the complaint store  (ComplaintContext: reducer + provider          *)
(*     operations, with the complaintService layer under it), and          *)
(*   - the chatbot store    (ChatbotContext: reducer + provider            *)
(*     operations, with the chatbotService layer under it).                *)
(* An asynchronous operation is two steps: the synchronous part up to its  *)
(* await (the "call"), and the continuation that runs when the remote      *)
(* answer arrives (the "resolution").  Any number of operations may be in  *)
(* flight; every dispatch is reduced against the latest state.             *)
(***************************************************************************)
EXTENDS Integers, Sequences, FiniteSets, TLC

VARIABLES
    state,      \* the complaint store's reducer state
    calls,      \* complaint operations in flight: call number -> request
    issued,     \* number of complaint operations issued so far
    ev,         \* the last complaint-store event (what ran, with what outcome)
    subBase,    \* Stats.total / Stats.pending after the last remove, reset or fetchStats
    subCount,   \* successful submits since then
    removed,    \* ids whose remove has succeeded
    chat,       \* the chatbot store's reducer state
    chatCalls,  \* chatbot operations in flight: call number -> request
    chatIssued, \* number of chatbot operations invoked so far
    chatEv,     \* the last chatbot-store event
    now         \* Date.now()

complaintVars == <<state, calls, issued, ev, subBase, subCount, removed>>
chatVars      == <<chat, chatCalls, chatIssued, chatEv, now>>
vars          == <<complaintVars, chatVars>>

-----------------------------------------------------------------------------
(* Bounds *)

MaxCalls == 2       \* operations invoked in one run
MaxList  == 2       \* longest list a remote response carries
MaxTime  == 1       \* how far the clock advances in one run

-----------------------------------------------------------------------------
(* JavaScript values *)

Null == "null"

\* A number, NaN, or undefined (a missing property).
Num(n)    == [k |-> "num", n |-> n]
NaN       == [k |-> "nan", n |-> 0]
Undefined == [k |-> "undef", n |-> 0]

\* x - 1
JsMinus1(v) == IF v.k = "num" THEN Num(v.n - 1) ELSE NaN
\* x + 1 (numeric operands only occur as numbers or NaN here)
JsPlus1(v)  == IF v.k = "num" THEN Num(v.n + 1) ELSE NaN
\* Math.max(0, x): NaN if x is NaN
JsMax0(v)   == IF v.k = "num" THEN Num(IF v.n > 0 THEN v.n ELSE 0) ELSE NaN
\* obj[key]
JsGet(obj, key) == IF key \in DOMAIN obj THEN obj[key] ELSE Undefined
\* { ...obj, ...patch }
JsSpread(obj, patch) ==
    [key \in DOMAIN obj \cup DOMAIN patch |->
        IF key \in DOMAIN patch THEN patch[key] ELSE obj[key]]

-----------------------------------------------------------------------------
(* Complaints *)

Ids      == {1, 2}
Statuses == {"pending", "in-progress", "resolved", "rejected"}

\* The complaints the remote collaborator may answer with: two ids, two
\* versions of complaint 1, statuses with a Stats bucket and one without.
Complaints  ==
    { [id |-> 1, status |-> "pending"], [id |-> 1, status |-> "resolved"],
      [id |-> 2, status |-> "in-progress"] }
NoComplaint == [id |-> 0, status |-> "null"]        \* currentComplaint: null

\* Array.prototype.find: the first entry with the id, or undefined
FindIndex(list, id) ==
    IF \E i \in 1..Len(list) : list[i].id = id
    THEN CHOOSE i \in 1..Len(list) :
            /\ list[i].id = id
            /\ \A j \in 1..(i - 1) : list[j].id # id
    ELSE 0

\* Array.prototype.filter(c => c.id !== id)
RECURSIVE FilterOut(_, _)
FilterOut(list, id) ==
    IF list = <<>> THEN <<>>
    ELSE IF Head(list).id # id
         THEN <<Head(list)>> \o FilterOut(Tail(list), id)
         ELSE FilterOut(Tail(list), id)

-----------------------------------------------------------------------------
(* The complaint reducer *)

complaintInitialState ==
    [ complaints       |-> <<>>,
      currentComplaint |-> NoComplaint,
      stats            |-> [total |-> Num(0), pending |-> Num(0),
                            resolved |-> Num(0), rejected |-> Num(0)],
      filters          |-> [status |-> "", category |-> "",
                            priority |-> "", searchTerm |-> ""],
      isLoading        |-> FALSE,
      error            |-> Null,
      pagination       |-> [page |-> 1, limit |-> 10, total |-> 0, totalPages |-> 0] ]

SetLoading(s, payload) == [s EXCEPT !.isLoading = payload]

\* A faulty SET_COMPLAINTS, for comparison: the payload is merged into the
\* list already held.
SetComplaintsMerging(s, payload) ==
    [s EXCEPT !.complaints = payload \o s.complaints,
              !.isLoading = FALSE, !.error = Null]

SetComplaints(s, payload) ==
    [s EXCEPT !.complaints = payload, !.isLoading = FALSE, !.error = Null]

\* A faulty SET_CURRENT_COMPLAINT, for comparison: a complaint already
\* current is kept.
SetCurrentComplaintOnce(s, payload) ==
    [s EXCEPT !.currentComplaint =
                  IF s.currentComplaint = NoComplaint THEN payload
                  ELSE s.currentComplaint,
              !.isLoading = FALSE, !.error = Null]

SetCurrentComplaint(s, payload) ==
    [s EXCEPT !.currentComplaint = payload, !.isLoading = FALSE, !.error = Null]

\* A faulty ADD_COMPLAINT, for comparison: the pending count is not touched.
AddComplaintTotalOnly(s, payload) ==
    [s EXCEPT !.complaints = <<payload>> \o s.complaints,
              !.stats = JsSpread(s.stats, [total |-> JsPlus1(s.stats.total)])]

\* A faulty ADD_COMPLAINT, for comparison: the new complaint goes last.
AddComplaintAppending(s, payload) ==
    [s EXCEPT !.complaints = Append(s.complaints, payload),
              !.stats = JsSpread(s.stats,
                            [total   |-> JsPlus1(s.stats.total),
                             pending |-> JsPlus1(s.stats.pending)])]

AddComplaint(s, payload) ==
    [s EXCEPT !.complaints = <<payload>> \o s.complaints,
              !.stats = JsSpread(s.stats,
                            [total   |-> JsPlus1(s.stats.total),
                             pending |-> JsPlus1(s.stats.pending)])]

\* A faulty UPDATE_COMPLAINT, for comparison: the current complaint is not
\* refreshed.
UpdateComplaintListOnly(s, payload) ==
    [s EXCEPT !.complaints =
                  [i \in 1..Len(s.complaints) |->
                      IF s.complaints[i].id = payload.id THEN payload
                      ELSE s.complaints[i]]]

UpdateComplaint(s, payload) ==
    [s EXCEPT !.complaints =
                  [i \in 1..Len(s.complaints) |->
                      IF s.complaints[i].id = payload.id THEN payload
                      ELSE s.complaints[i]],
              !.currentComplaint =
                  IF s.currentComplaint # NoComplaint
                       /\ s.currentComplaint.id = payload.id
                  THEN payload ELSE s.currentComplaint]

\* deletedComplaint?.status used as a computed property key
DeletedStatusKey(s, id) ==
    LET i == FindIndex(s.complaints, id)
    IN  IF i = 0 THEN "undefined" ELSE s.complaints[i].status

DeleteStats(s, id) ==
    LET key == DeletedStatusKey(s, id)
        withTotal == JsSpread(s.stats, [total |-> JsMinus1(s.stats.total)])
    IN  JsSpread(withTotal,
                 [x \in {key} |-> JsMax0(JsMinus1(JsGet(s.stats, key)))])

\* A faulty DELETE_COMPLAINT, for comparison: the current complaint is kept.
DeleteComplaintKeepCurrent(s, id) ==
    [s EXCEPT !.complaints = FilterOut(s.complaints, id),
              !.stats = DeleteStats(s, id)]

DeleteComplaint(s, id) ==
    [s EXCEPT !.complaints = FilterOut(s.complaints, id),
              !.currentComplaint =
                  IF s.currentComplaint # NoComplaint /\ s.currentComplaint.id = id
                  THEN NoComplaint ELSE s.currentComplaint,
              !.stats = DeleteStats(s, id)]

SetStats(s, payload) == [s EXCEPT !.stats = payload]

\* A faulty SET_FILTERS, for comparison: the payload replaces the filters.
SetFiltersReplacing(s, payload) == [s EXCEPT !.filters = payload]

SetFilters(s, payload) == [s EXCEPT !.filters = JsSpread(s.filters, payload)]

\* A faulty SET_ERROR, for comparison: Loading is left as it was.
SetErrorKeepLoading(s, payload) == [s EXCEPT !.error = payload]

SetError(s, payload) == [s EXCEPT !.error = payload, !.isLoading = FALSE]

ClearError(s) == [s EXCEPT !.error = Null]

SetPagination(s, payload) ==
    [s EXCEPT !.pagination = JsSpread(s.pagination, payload)]

complaintReducer(s, type, payload) ==
    CASE type = "SET_LOADING"           -> SetLoading(s, payload)
      [] type = "SET_COMPLAINTS"        -> SetComplaints(s, payload)
      [] type = "SET_CURRENT_COMPLAINT" -> SetCurrentComplaint(s, payload)
      [] type = "ADD_COMPLAINT"         -> AddComplaint(s, payload)
      [] type = "UPDATE_COMPLAINT"      -> UpdateComplaint(s, payload)
      [] type = "DELETE_COMPLAINT"      -> DeleteComplaint(s, payload)
      [] type = "SET_STATS"             -> SetStats(s, payload)
      [] type = "SET_FILTERS"           -> SetFilters(s, payload)
      [] type = "SET_ERROR"             -> SetError(s, payload)
      [] type = "CLEAR_ERROR"           -> ClearError(s)
      [] type = "SET_PAGINATION"        -> SetPagination(s, payload)
      [] type = "RESET_STATE"           -> complaintInitialState
      [] OTHER                          -> s


-----------------------------------------------------------------------------
(* The remote collaborator and complaintService *)

\* Lists a remote response may carry: complaints with distinct ids.
RemoteLists ==
    { l \in UNION { [1..n -> Complaints] : n \in 0..MaxList } :
        \A i, j \in 1..Len(l) : i # j => l[i].id # l[j].id }

PaginationReply == [page |-> 1, limit |-> 10, total |-> 2, totalPages |-> 1]

\* response.data of the list endpoint: { complaints?, pagination? }.  The two
\* fields are handled independently; pagination varies on the reply without
\* complaints.
ListResponses ==
    [hasComplaints : {TRUE}, complaints : RemoteLists, hasPagination : {FALSE}]
    \cup [hasComplaints : {FALSE}, complaints : {<<>>}, hasPagination : BOOLEAN]

\* response.data of the search endpoint: { complaints? }
SearchResponses == { r \in ListResponses : ~r.hasPagination }

\* response.data of the stats endpoint (non-negative aggregates)
RemoteStats ==
    { [total |-> Num(1), pending |-> Num(1), resolved |-> Num(0), rejected |-> Num(0)],
      [total |-> Num(2), pending |-> Num(0), resolved |-> Num(1), rejected |-> Num(1)] }

\* A failed request: error.response?.data, absent when the server never answered.
\* A body may or may not carry a message.
FailureBodies ==
    { [present |-> FALSE, message |-> Null],
      [present |-> TRUE,  message |-> Null],
      [present |-> TRUE,  message |-> "server says no"] }

ServiceDefault(op) ==
    CASE op = "submitComplaint"    -> "Failed to submit complaint"
      [] op = "fetchComplaints"    -> "Failed to fetch complaints"
      [] op = "fetchComplaintById" -> "Failed to fetch complaint details"
      [] op = "updateComplaint"    -> "Failed to update complaint"
      [] op = "deleteComplaint"    -> "Failed to delete complaint"
      [] op = "fetchStats"         -> "Failed to fetch complaint statistics"
      [] op = "searchComplaints"   -> "Failed to search complaints"

\* complaintService.*: catch (error) { throw error.response?.data || { message: ... } }
ServiceThrown(op, body) ==
    IF body.present THEN [message |-> body.message]
    ELSE [message |-> ServiceDefault(op)]

Truthy(str) == str # Null /\ str # ""

ContextDefault(op) ==
    CASE op = "fetchComplaints"    -> "Failed to fetch complaints"
      [] op = "fetchComplaintById" -> "Failed to fetch complaint"
      [] op = "submitComplaint"    -> "Failed to submit complaint"
      [] op = "updateComplaint"    -> "Failed to update complaint"
      [] op = "deleteComplaint"    -> "Failed to delete complaint"
      [] op = "searchComplaints"   -> "Failed to search complaints"

\* error.message || '<default>'
ErrorText(op, thrown) ==
    IF Truthy(thrown.message) THEN thrown.message ELSE ContextDefault(op)

-----------------------------------------------------------------------------
(* ComplaintProvider operations *)

FilterArgs == {"pending"}       \* the status filter of a request

Request(op, id, filt) == [op |-> op, id |-> id, filt |-> filt]

NoRequest  == Request("none", 0, "")
NoResponse == [hasComplaints |-> FALSE, complaints |-> <<>>, hasPagination |-> FALSE]

\* What the last step was: a "call", an "ok" or "fail" resolution, or a "sync"
\* operation, of which operation, with which request and which answer (c a
\* complaint, resp a list response).  promise is how the operation's promise
\* settled at this step, thrown the message of the failure it rejected with,
\* again whether a remove of the request's id had already succeeded,
\* superseded whether a later call had been issued when a fetchAll or update
\* was answered, pre the complaints, current complaint and Stats the step
\* started from.
Event(kind, op, promise, thrown, req, c, resp) ==
    [ kind |-> kind, op |-> op, promise |-> promise, thrown |-> thrown,
      id |-> req.id, filt |-> req.filt, c |-> c, resp |-> resp,
      again |-> req.id \in removed,
      superseded |-> FALSE,
      pre |-> [complaints       |-> state.complaints,
               currentComplaint |-> state.currentComplaint,
               stats            |-> state.stats] ]

InFlight == DOMAIN calls

\* A faulty start of an operation, for comparison: Loading is not raised.
BeginQuiet(s) == complaintReducer(s, "CLEAR_ERROR", Null)

\* dispatch SET_LOADING true; dispatch CLEAR_ERROR
Begin(s) == complaintReducer(complaintReducer(s, "SET_LOADING", TRUE), "CLEAR_ERROR", Null)

\* The synchronous part of an operation, up to its await.
Call(req, s) ==
    /\ issued < MaxCalls
    /\ issued' = issued + 1
    /\ calls' = [k \in InFlight \cup {issued + 1} |->
                    IF k = issued + 1 THEN req ELSE calls[k]]
    /\ state' = s
    /\ ev' = Event("call", req.op, "pending", Null, req, NoComplaint, NoResponse)
    /\ UNCHANGED <<subBase, subCount, removed>>
    /\ UNCHANGED chatVars

\* The event of call k's answer, when later calls may have been issued.
Answered(k, e) == [e EXCEPT !.superseded = k < issued]

Settle(k) ==
    /\ calls' = [j \in InFlight \ {k} |-> calls[j]]
    /\ UNCHANGED chatVars

\* catch (error) { dispatch SET_ERROR error.message || default; throw error }
Fail(k, op, body) ==
    /\ k \in InFlight /\ calls[k].op = op
    /\ LET thrown == ServiceThrown(op, body)
       IN  /\ state' = complaintReducer(state, "SET_ERROR", ErrorText(op, thrown))
           /\ ev' = Event("fail", op, "rejected", thrown.message,
                          calls[k], NoComplaint, NoResponse)
    /\ Settle(k)
    /\ UNCHANGED <<issued, subBase, subCount, removed>>

StatsBase(s) == [total |-> s.stats.total, pending |-> s.stats.pending]

fetchComplaintsCall(filt) == Call(Request("fetchComplaints", 0, filt), Begin(state))

\* SET_COMPLAINTS response.complaints || []; SET_PAGINATION if response.pagination
ListPayload(resp) == IF resp.hasComplaints THEN resp.complaints ELSE <<>>

\* A fenced fetchComplaints, for comparison: the response of a call that a
\* later call has superseded does not replace the list.
fetchComplaintsOkFenced(k, resp) ==
    /\ k \in InFlight /\ calls[k].op = "fetchComplaints"
    /\ state' = IF k < issued
                THEN complaintReducer(state, "SET_LOADING", FALSE)
                ELSE complaintReducer(state, "SET_COMPLAINTS", ListPayload(resp))
    /\ ev' = Answered(k, Event("ok", "fetchComplaints", "resolved", Null,
                                calls[k], NoComplaint, resp))
    /\ Settle(k)
    /\ UNCHANGED <<issued, subBase, subCount, removed>>

fetchComplaintsOk(k, resp) ==
    /\ k \in InFlight /\ calls[k].op = "fetchComplaints"
    /\ LET s1 == complaintReducer(state, "SET_COMPLAINTS", ListPayload(resp))
       IN  state' = IF resp.hasPagination
                    THEN complaintReducer(s1, "SET_PAGINATION", PaginationReply)
                    ELSE s1
    /\ ev' = Answered(k, Event("ok", "fetchComplaints", "resolved", Null,
                                calls[k], NoComplaint, resp))
    /\ Settle(k)
    /\ UNCHANGED <<issued, subBase, subCount, removed>>

fetchComplaintsFail(k, body) == Fail(k, "fetchComplaints", body)

fetchComplaintByIdCall(id) == Call(Request("fetchComplaintById", id, ""), Begin(state))

fetchComplaintByIdOk(k, c) ==
    /\ k \in InFlight /\ calls[k].op = "fetchComplaintById"
    /\ state' = complaintReducer(state, "SET_CURRENT_COMPLAINT", c)
    /\ ev' = Event("ok", "fetchComplaintById", "resolved", Null, calls[k], c, NoResponse)
    /\ Settle(k)
    /\ UNCHANGED <<issued, subBase, subCount, removed>>

fetchComplaintByIdFail(k, body) == Fail(k, "fetchComplaintById", body)

submitComplaintCall == Call(Request("submitComplaint", 0, ""), Begin(state))

\* A faulty submit, for comparison: Loading is not lowered on success.
submitComplaintOkKeepLoading(k, c) ==
    /\ k \in InFlight /\ calls[k].op = "submitComplaint"
    /\ state' = complaintReducer(state, "ADD_COMPLAINT", c)
    /\ ev' = Event("ok", "submitComplaint", "resolved", Null, calls[k], c, NoResponse)
    /\ Settle(k)
    /\ subCount' = subCount + 1
    /\ UNCHANGED <<issued, subBase, removed>>

\* ADD_COMPLAINT newComplaint; SET_LOADING false
submitComplaintOk(k, c) ==
    /\ k \in InFlight /\ calls[k].op = "submitComplaint"
    /\ state' = complaintReducer(complaintReducer(state, "ADD_COMPLAINT", c),
                                 "SET_LOADING", FALSE)
    /\ ev' = Event("ok", "submitComplaint", "resolved", Null, calls[k], c, NoResponse)
    /\ Settle(k)
    /\ subCount' = subCount + 1
    /\ UNCHANGED <<issued, subBase, removed>>

submitComplaintFail(k, body) == Fail(k, "submitComplaint", body)

updateComplaintCall(id) == Call(Request("updateComplaint", id, ""), Begin(state))

\* UPDATE_COMPLAINT updatedComplaint; SET_LOADING false
updateComplaintOk(k, c) ==
    /\ k \in InFlight /\ calls[k].op = "updateComplaint"
    /\ state' = complaintReducer(complaintReducer(state, "UPDATE_COMPLAINT", c),
                                 "SET_LOADING", FALSE)
    /\ ev' = Answered(k, Event("ok", "updateComplaint", "resolved", Null,
                                calls[k], c, NoResponse))
    /\ Settle(k)
    /\ UNCHANGED <<issued, subBase, subCount, removed>>

updateComplaintFail(k, body) == Fail(k, "updateComplaint", body)

\* An optimistic remove, for comparison: the complaint is dropped locally
\* before the remote has confirmed.
deleteComplaintCallOptimistic(id) ==
    Call(Request("deleteComplaint", id, ""),
         complaintReducer(Begin(state), "DELETE_COMPLAINT", id))

deleteComplaintCall(id) == Call(Request("deleteComplaint", id, ""), Begin(state))

\* DELETE_COMPLAINT complaintId; SET_LOADING false
deleteComplaintOk(k) ==
    /\ k \in InFlight /\ calls[k].op = "deleteComplaint"
    /\ state' = complaintReducer(complaintReducer(state, "DELETE_COMPLAINT", calls[k].id),
                                 "SET_LOADING", FALSE)
    /\ ev' = Event("ok", "deleteComplaint", "resolved", Null, calls[k], NoComplaint, NoResponse)
    /\ Settle(k)
    /\ subBase' = StatsBase(state')
    /\ subCount' = 0
    /\ removed' = removed \cup {calls[k].id}
    /\ UNCHANGED issued

deleteComplaintFail(k, body) == Fail(k, "deleteComplaint", body)

\* fetchStats dispatches nothing before its await
fetchStatsCall == Call(Request("fetchStats", 0, ""), state)

fetchStatsOk(k, remote) ==
    /\ k \in InFlight /\ calls[k].op = "fetchStats"
    /\ state' = complaintReducer(state, "SET_STATS", remote)
    /\ ev' = Event("ok", "fetchStats", "resolved", Null, calls[k], NoComplaint, NoResponse)
    /\ Settle(k)
    /\ subBase' = StatsBase(state')
    /\ subCount' = 0
    /\ UNCHANGED <<issued, removed>>

\* A faulty fetchStats catch, for comparison: the failure is surfaced.
fetchStatsFailLoud(k, body) ==
    /\ k \in InFlight /\ calls[k].op = "fetchStats"
    /\ state' = complaintReducer(state, "SET_ERROR", "Failed to fetch stats")
    /\ ev' = Event("fail", "fetchStats", "rejected", Null, calls[k], NoComplaint, NoResponse)
    /\ Settle(k)
    /\ UNCHANGED <<issued, subBase, subCount, removed>>

\* catch (error) { console.error(...) }: the promise resolves with undefined
fetchStatsFail(k, body) ==
    /\ k \in InFlight /\ calls[k].op = "fetchStats"
    /\ state' = state
    /\ ev' = Event("fail", "fetchStats", "resolved", Null, calls[k], NoComplaint, NoResponse)
    /\ Settle(k)
    /\ UNCHANGED <<issued, subBase, subCount, removed>>

searchComplaintsCall(filt) == Call(Request("searchComplaints", 0, filt), Begin(state))

searchComplaintsOk(k, resp) ==
    /\ k \in InFlight /\ calls[k].op = "searchComplaints"
    /\ state' = complaintReducer(state, "SET_COMPLAINTS", ListPayload(resp))
    /\ ev' = Event("ok", "searchComplaints", "resolved", Null, calls[k], NoComplaint, resp)
    /\ Settle(k)
    /\ UNCHANGED <<issued, subBase, subCount, removed>>

searchComplaintsFail(k, body) == Fail(k, "searchComplaints", body)

FilterPatches ==
    { [status |-> "pending"], [status |-> "", searchTerm |-> "leak"] }

Sync(op, s) ==
    /\ issued < MaxCalls
    /\ issued' = issued + 1
    /\ state' = s
    /\ ev' = Event("sync", op, "none", Null, NoRequest, NoComplaint, NoResponse)
    /\ UNCHANGED calls
    /\ UNCHANGED chatVars

setFilters(patch) ==
    /\ Sync("setFilters", complaintReducer(state, "SET_FILTERS", patch))
    /\ UNCHANGED <<subBase, subCount, removed>>

clearError ==
    /\ Sync("clearError", complaintReducer(state, "CLEAR_ERROR", Null))
    /\ UNCHANGED <<subBase, subCount, removed>>

resetState ==
    /\ Sync("resetState", complaintReducer(state, "RESET_STATE", Null))
    /\ subBase' = StatsBase(state')
    /\ subCount' = 0
    /\ UNCHANGED removed

-----------------------------------------------------------------------------
(* Chat messages *)

Greeting == "Hello! I'm your ComplEase assistant. I'm here to help you with your complaints and answer any questions you might have. How can I assist you today?"
Apology  == "I'm sorry, I'm having trouble processing your request right now. Please try again later or contact support if the issue persists."

Message(id, text, sender, isError) ==
    [id |-> id, text |-> text, sender |-> sender, isError |-> isError]

DefaultFeatures ==
    [intentClassification |-> FALSE, sentimentAnalysis |-> FALSE,
     entityExtraction |-> FALSE, multilingual |-> FALSE]

-----------------------------------------------------------------------------
(* The chatbot reducer *)

chatbotInitialState ==
    [ messages              |-> <<>>,
      currentConversationId |-> Null,
      isTyping              |-> FALSE,
      isConnected           |-> TRUE,
      error                 |-> Null,
      suggestions           |-> <<>>,
      conversationHistory   |-> <<>>,
      capabilities          |-> DefaultFeatures ]

SetMessages(s, payload) == [s EXCEPT !.messages = payload]

AddMessage(s, payload) == [s EXCEPT !.messages = Append(s.messages, payload)]

SetTyping(s, payload) == [s EXCEPT !.isTyping = payload]

SetConnected(s, payload) == [s EXCEPT !.isConnected = payload]

ChatSetError(s, payload) == [s EXCEPT !.error = payload, !.isTyping = FALSE]

ChatClearError(s) == [s EXCEPT !.error = Null]

SetConversationId(s, payload) == [s EXCEPT !.currentConversationId = payload]

SetSuggestions(s, payload) == [s EXCEPT !.suggestions = payload]

SetConversationHistory(s, payload) == [s EXCEPT !.conversationHistory = payload]

SetCapabilities(s, payload) == [s EXCEPT !.capabilities = payload]

\* A faulty RESET_CONVERSATION, for comparison: capabilities are reset too.
ResetConversationAll(s) == chatbotInitialState

\* { ...initialState, capabilities: state.capabilities }
ResetConversation(s) == [chatbotInitialState EXCEPT !.capabilities = s.capabilities]

chatbotReducer(s, type, payload) ==
    CASE type = "SET_MESSAGES"             -> SetMessages(s, payload)
      [] type = "ADD_MESSAGE"              -> AddMessage(s, payload)
      [] type = "SET_TYPING"               -> SetTyping(s, payload)
      [] type = "SET_CONNECTED"            -> SetConnected(s, payload)
      [] type = "SET_ERROR"                -> ChatSetError(s, payload)
      [] type = "CLEAR_ERROR"              -> ChatClearError(s)
      [] type = "SET_CONVERSATION_ID"      -> SetConversationId(s, payload)
      [] type = "SET_SUGGESTIONS"          -> SetSuggestions(s, payload)
      [] type = "SET_CONVERSATION_HISTORY" -> SetConversationHistory(s, payload)
      [] type = "SET_CAPABILITIES"         -> SetCapabilities(s, payload)
      [] type = "RESET_CONVERSATION"       -> ResetConversation(s)
      [] OTHER                             -> s

-----------------------------------------------------------------------------
(* The remote chat collaborator and chatbotService *)

Texts == {"I want to file a complaint", "hello"}

\* response.data of the message endpoint:
\* { message | response, conversationId?, suggestions? }
ChatResponses ==
    [ message : {Null, "reply"}, response : {"other reply"},
      conversationId : {Null, "conv-1"},
      hasSuggestions : BOOLEAN, suggestions : {<<"Track my complaint">>} ]

\* A failed message request: error.response?.data, absent when the server
\* never answered; a body may carry a message and a fallback reply text.
ChatFailureBodies ==
    { [present |-> FALSE, message |-> Null,             response |-> Null],
      [present |-> TRUE,  message |-> "server says no", response |-> Null],
      [present |-> TRUE,  message |-> Null,             response |-> "fallback reply"] }

NoThrown == [message |-> Null, response |-> Null]

\* chatbotService.sendMessage: throw error.response?.data || { message, response }
SendThrown(body) ==
    IF body.present THEN [message |-> body.message, response |-> body.response]
    ELSE [message  |-> "Failed to send message to chatbot",
          response |-> "I apologize, but I'm having trouble processing your request right now. Please try again later or contact support."]

\* response.data of the capabilities endpoint; a null body has no features to read
CapabilityData ==
    { [isNull |-> FALSE, hasFeatures |-> TRUE,
       features |-> [intentClassification |-> TRUE, sentimentAnalysis |-> TRUE,
                     entityExtraction |-> FALSE, multilingual |-> FALSE]],
      [isNull |-> FALSE, hasFeatures |-> FALSE, features |-> << >>],
      [isNull |-> TRUE,  hasFeatures |-> FALSE, features |-> << >>] }

\* The default capabilities chatbotService.getCapabilities returns from its catch
DefaultCapabilities ==
    [isNull |-> FALSE, hasFeatures |-> TRUE, features |-> DefaultFeatures]

\* chatbotService.getCapabilities: the request's data, or the default when it fails
getCapabilities(fetchFailed, data) ==
    IF fetchFailed THEN DefaultCapabilities ELSE data

-----------------------------------------------------------------------------
(* ChatbotProvider operations *)

\* A chatbot operation in flight.  convId is the conversation id its closure
\* captured; chained marks a sendMessage performed by startNewConversation;
\* len0 is the transcript length when the operation was called and alone
\* whether no other operation has appended to or reset the transcript since.
ChatRequest(op, text, convId, chained, len0) ==
    [op |-> op, text |-> text, convId |-> convId, chained |-> chained,
     len0 |-> len0, alone |-> TRUE]

\* What the last chatbot step was (as Event above): thrown is the failure
\* the promise rejected with; text, len0 and alone are the request's; pre is
\* the chatbot state the step started from.
ChatEvent(kind, op, promise, thrown, req) ==
    [kind |-> kind, op |-> op, promise |-> promise, thrown |-> thrown,
     text |-> req.text, len0 |-> req.len0, alone |-> req.alone, pre |-> chat]

NoChatRequest == [ChatRequest("none", Null, Null, FALSE, 0) EXCEPT !.alone = FALSE]

ChatInFlight == DOMAIN chatCalls

\* Another operation touched the transcript: no call in flight is alone any more.
Touched(requests) == [k \in DOMAIN requests |-> [requests[k] EXCEPT !.alone = FALSE]]

ChatBudget ==
    /\ chatIssued < MaxCalls
    /\ chatIssued' = chatIssued + 1

ChatAwait(requests, req) ==
    chatCalls' = [k \in DOMAIN requests \cup {chatIssued + 1} |->
                     IF k = chatIssued + 1 THEN req ELSE requests[k]]

ChatSettle(requests, k) ==
    chatCalls' = [j \in DOMAIN requests \ {k} |-> requests[j]]

\* initializeChatbot dispatches nothing before its await
initializeChatbotCall ==
    /\ ChatBudget
    /\ LET req == ChatRequest("initializeChatbot", Null, Null, FALSE, Len(chat.messages))
       IN  /\ ChatAwait(chatCalls, req)
           /\ chatEv' = ChatEvent("call", "initializeChatbot", "pending", NoThrown, req)
    /\ UNCHANGED <<chat, now>>
    /\ UNCHANGED complaintVars

\* A faulty initialize, for comparison: no greeting is appended.
InitializeContinueQuiet(s, capabilities) ==
    IF capabilities.isNull
    THEN chatbotReducer(s, "SET_CONNECTED", FALSE)
    ELSE chatbotReducer(
             chatbotReducer(s, "SET_CAPABILITIES",
                 IF capabilities.hasFeatures THEN capabilities.features ELSE << >>),
             "SET_CONNECTED", TRUE)

\* SET_CAPABILITIES capabilities.features || {}; ADD_MESSAGE greeting;
\* SET_CONNECTED true; catch: SET_CONNECTED false
InitializeContinue(s, capabilities) ==
    IF capabilities.isNull
    THEN chatbotReducer(s, "SET_CONNECTED", FALSE)
    ELSE LET s1 == chatbotReducer(s, "SET_CAPABILITIES",
                       IF capabilities.hasFeatures THEN capabilities.features ELSE << >>)
             s2 == chatbotReducer(s1, "ADD_MESSAGE", Message(now, Greeting, "bot", FALSE))
         IN  chatbotReducer(s2, "SET_CONNECTED", TRUE)

initializeChatbotResolve(k, fetchFailed, data) ==
    /\ k \in ChatInFlight /\ chatCalls[k].op = "initializeChatbot"
    /\ LET capabilities == getCapabilities(fetchFailed, data)
       IN  /\ chat' = InitializeContinue(chat, capabilities)
           /\ ChatSettle(IF capabilities.isNull THEN chatCalls ELSE Touched(chatCalls), k)
    /\ chatEv' = ChatEvent(IF fetchFailed THEN "fail" ELSE "ok", "initializeChatbot",
                           "resolved", NoThrown, chatCalls[k])
    /\ UNCHANGED <<chatIssued, now>>
    /\ UNCHANGED complaintVars

initializeChatbotOk(k, data) == initializeChatbotResolve(k, FALSE, data)

initializeChatbotFetchFail(k) ==
    initializeChatbotResolve(k, TRUE, DefaultCapabilities)

\* ADD_MESSAGE userMessage; SET_TYPING true; CLEAR_ERROR
SendBegin(s, text) ==
    LET s1 == chatbotReducer(s, "ADD_MESSAGE", Message(now, text, "user", FALSE))
        s2 == chatbotReducer(s1, "SET_TYPING", TRUE)
    IN  chatbotReducer(s2, "CLEAR_ERROR", Null)

sendMessageCall(text) ==
    /\ ChatBudget
    /\ chat' = SendBegin(chat, text)
    /\ LET req == ChatRequest("sendMessage", text, chat.currentConversationId,
                              FALSE, Len(chat.messages))
       IN  /\ ChatAwait(Touched(chatCalls), req)
           /\ chatEv' = ChatEvent("call", "sendMessage", "pending", NoThrown, req)
    /\ UNCHANGED now
    /\ UNCHANGED complaintVars

\* A faulty reply text, for comparison: only the primary field is read.
ReplyTextPrimaryOnly(resp) == resp.message

\* response.message || response.response
ReplyText(resp) ==
    IF Truthy(resp.message) THEN resp.message ELSE resp.response

\* ADD_MESSAGE botMessage; SET_CONVERSATION_ID and SET_SUGGESTIONS if provided;
\* SET_TYPING false
SendSucceed(s, resp) ==
    LET s1 == chatbotReducer(s, "ADD_MESSAGE",
                             Message(now + 1, ReplyText(resp), "bot", FALSE))
        s2 == IF Truthy(resp.conversationId)
              THEN chatbotReducer(s1, "SET_CONVERSATION_ID", resp.conversationId)
              ELSE s1
        s3 == IF resp.hasSuggestions
              THEN chatbotReducer(s2, "SET_SUGGESTIONS", resp.suggestions)
              ELSE s2
    IN  chatbotReducer(s3, "SET_TYPING", FALSE)

sendMessageOk(k, resp) ==
    /\ k \in ChatInFlight /\ chatCalls[k].op = "sendMessage"
    /\ chat' = SendSucceed(chat, resp)
    /\ ChatSettle(Touched(chatCalls), k)
    /\ chatEv' = ChatEvent("ok", "sendMessage", "resolved", NoThrown, chatCalls[k])
    /\ UNCHANGED <<chatIssued, now>>
    /\ UNCHANGED complaintVars

\* A faulty error reply, for comparison: the failure's own text is ignored.
ErrorReplyTextFixed(thrown) == Apology

\* error.response || apology
ErrorReplyText(thrown) ==
    IF Truthy(thrown.response) THEN thrown.response ELSE Apology

\* error.message || 'Failed to send message'
SendErrorText(thrown) ==
    IF Truthy(thrown.message) THEN thrown.message ELSE "Failed to send message"

\* A faulty catch branch, for comparison: no error message is appended.
SendFailedSilently(s, thrown) ==
    chatbotReducer(s, "SET_ERROR", SendErrorText(thrown))

\* A faulty catch branch, for comparison: the error message replaces the
\* last message of the transcript.
SendFailedOverwriting(s, thrown) ==
    LET n  == Len(s.messages)
        s1 == chatbotReducer(s, "SET_MESSAGES",
                  [i \in 1..n |->
                      IF i = n THEN Message(now + 1, ErrorReplyText(thrown), "bot", TRUE)
                      ELSE s.messages[i]])
    IN  chatbotReducer(s1, "SET_ERROR", SendErrorText(thrown))

\* catch: ADD_MESSAGE errorMessage; SET_ERROR; throw error
SendFailed(s, thrown) ==
    LET s1 == chatbotReducer(s, "ADD_MESSAGE",
                             Message(now + 1, ErrorReplyText(thrown), "bot", TRUE))
    IN  chatbotReducer(s1, "SET_ERROR", SendErrorText(thrown))

sendMessageFail(k, body) ==
    /\ k \in ChatInFlight /\ chatCalls[k].op = "sendMessage"
    /\ chat' = SendFailed(chat, SendThrown(body))
    /\ ChatSettle(Touched(chatCalls), k)
    /\ chatEv' = ChatEvent("fail", "sendMessage", "rejected", SendThrown(body), chatCalls[k])
    /\ UNCHANGED <<chatIssued, now>>
    /\ UNCHANGED complaintVars

\* startNewConversation dispatches nothing before its await; the sendMessage
\* it may call later is the one of the render it was called from
startNewConversationCall(initialMessage) ==
    /\ ChatBudget
    /\ LET req == ChatRequest("startNewConversation", initialMessage,
                              chat.currentConversationId, FALSE, Len(chat.messages))
       IN  /\ ChatAwait(chatCalls, req)
           /\ chatEv' = ChatEvent("call", "startNewConversation", "pending", NoThrown, req)
    /\ UNCHANGED <<chat, now>>
    /\ UNCHANGED complaintVars

\* SET_CONVERSATION_ID response.conversationId; if (initialMessage) await sendMessage(...)
startNewConversationOk(k, conversationId) ==
    /\ k \in ChatInFlight /\ chatCalls[k].op = "startNewConversation"
    /\ LET req == chatCalls[k]
           s1  == chatbotReducer(chat, "SET_CONVERSATION_ID", conversationId)
       IN  IF Truthy(req.text)
           THEN /\ chat' = SendBegin(s1, req.text)
                /\ chatCalls' =
                       [j \in ChatInFlight |->
                           IF j = k
                           THEN ChatRequest("sendMessage", req.text, req.convId,
                                            TRUE, Len(chat.messages))
                           ELSE [chatCalls[j] EXCEPT !.alone = FALSE]]
                /\ chatEv' = ChatEvent("ok", "startNewConversation", "pending", NoThrown, req)
           ELSE /\ chat' = s1
                /\ ChatSettle(chatCalls, k)
                /\ chatEv' = ChatEvent("ok", "startNewConversation", "resolved", NoThrown, req)
    /\ UNCHANGED <<chatIssued, now>>
    /\ UNCHANGED complaintVars

\* catch: throw error
startNewConversationFail(k) ==
    /\ k \in ChatInFlight /\ chatCalls[k].op = "startNewConversation"
    /\ ChatSettle(chatCalls, k)
    /\ chatEv' = ChatEvent("fail", "startNewConversation", "rejected",
                           [message |-> "Failed to start conversation", response |-> Null],
                           chatCalls[k])
    /\ UNCHANGED <<chat, chatIssued, now>>
    /\ UNCHANGED complaintVars

\* if (state.currentConversationId) await chatbotService.endConversation(...)
endConversationCall ==
    /\ ChatBudget
    /\ Truthy(chat.currentConversationId)
    /\ LET req == ChatRequest("endConversation", Null, chat.currentConversationId,
                              FALSE, Len(chat.messages))
       IN  /\ ChatAwait(chatCalls, req)
           /\ chatEv' = ChatEvent("call", "endConversation", "pending", NoThrown, req)
    /\ UNCHANGED <<chat, now>>
    /\ UNCHANGED complaintVars

\* RESET_CONVERSATION, after the notification succeeded or failed
endConversationResolve(k, notified) ==
    /\ k \in ChatInFlight /\ chatCalls[k].op = "endConversation"
    /\ chat' = chatbotReducer(chat, "RESET_CONVERSATION", Null)
    /\ ChatSettle(Touched(chatCalls), k)
    /\ chatEv' = ChatEvent(IF notified THEN "ok" ELSE "fail", "endConversation",
                           "resolved", NoThrown, chatCalls[k])
    /\ UNCHANGED <<chatIssued, now>>
    /\ UNCHANGED complaintVars

\* no conversation id: RESET_CONVERSATION without a remote call
endConversationLocal ==
    /\ ChatBudget
    /\ ~Truthy(chat.currentConversationId)
    /\ chat' = chatbotReducer(chat, "RESET_CONVERSATION", Null)
    /\ chatCalls' = Touched(chatCalls)
    /\ chatEv' = ChatEvent("sync", "endConversation", "resolved", NoThrown, NoChatRequest)
    /\ UNCHANGED now
    /\ UNCHANGED complaintVars

\* getConversationHistory dispatches nothing before its await
getConversationHistoryCall ==
    /\ ChatBudget
    /\ LET req == ChatRequest("getConversationHistory", Null, chat.currentConversationId,
                              FALSE, Len(chat.messages))
       IN  /\ ChatAwait(chatCalls, req)
           /\ chatEv' = ChatEvent("call", "getConversationHistory", "pending", NoThrown, req)
    /\ UNCHANGED <<chat, now>>
    /\ UNCHANGED complaintVars

\* SET_CONVERSATION_HISTORY history
getConversationHistoryOk(k, history) ==
    /\ k \in ChatInFlight /\ chatCalls[k].op = "getConversationHistory"
    /\ chat' = chatbotReducer(chat, "SET_CONVERSATION_HISTORY", history)
    /\ ChatSettle(chatCalls, k)
    /\ chatEv' = ChatEvent("ok", "getConversationHistory", "resolved", NoThrown, chatCalls[k])
    /\ UNCHANGED <<chatIssued, now>>
    /\ UNCHANGED complaintVars

\* catch: throw error
getConversationHistoryFail(k) ==
    /\ k \in ChatInFlight /\ chatCalls[k].op = "getConversationHistory"
    /\ ChatSettle(chatCalls, k)
    /\ chatEv' = ChatEvent("fail", "getConversationHistory", "rejected",
                           [message |-> "Failed to fetch conversation history",
                            response |-> Null],
                           chatCalls[k])
    /\ UNCHANGED <<chat, chatIssued, now>>
    /\ UNCHANGED complaintVars

\* getComplaintSuggestions dispatches nothing before its await
getComplaintSuggestionsCall ==
    /\ ChatBudget
    /\ LET req == ChatRequest("getComplaintSuggestions", Null, chat.currentConversationId,
                              FALSE, Len(chat.messages))
       IN  /\ ChatAwait(chatCalls, req)
           /\ chatEv' = ChatEvent("call", "getComplaintSuggestions", "pending", NoThrown, req)
    /\ UNCHANGED <<chat, now>>
    /\ UNCHANGED complaintVars

\* SET_SUGGESTIONS suggestions
getComplaintSuggestionsOk(k, suggestions) ==
    /\ k \in ChatInFlight /\ chatCalls[k].op = "getComplaintSuggestions"
    /\ chat' = chatbotReducer(chat, "SET_SUGGESTIONS", suggestions)
    /\ ChatSettle(chatCalls, k)
    /\ chatEv' = ChatEvent("ok", "getComplaintSuggestions", "resolved", NoThrown, chatCalls[k])
    /\ UNCHANGED <<chatIssued, now>>
    /\ UNCHANGED complaintVars

\* catch: return []
getComplaintSuggestionsFail(k) ==
    /\ k \in ChatInFlight /\ chatCalls[k].op = "getComplaintSuggestions"
    /\ ChatSettle(chatCalls, k)
    /\ chatEv' = ChatEvent("fail", "getComplaintSuggestions", "resolved", NoThrown, chatCalls[k])
    /\ UNCHANGED <<chat, chatIssued, now>>
    /\ UNCHANGED complaintVars

\* if (state.currentConversationId) await chatbotService.reportInteraction(...)
reportFeedbackCall ==
    /\ ChatBudget
    /\ Truthy(chat.currentConversationId)
    /\ LET req == ChatRequest("reportFeedback", Null, chat.currentConversationId,
                              FALSE, Len(chat.messages))
       IN  /\ ChatAwait(chatCalls, req)
           /\ chatEv' = ChatEvent("call", "reportFeedback", "pending", NoThrown, req)
    /\ UNCHANGED <<chat, now>>
    /\ UNCHANGED complaintVars

\* catch: console.error
reportFeedbackResolve(k, reported) ==
    /\ k \in ChatInFlight /\ chatCalls[k].op = "reportFeedback"
    /\ ChatSettle(chatCalls, k)
    /\ chatEv' = ChatEvent(IF reported THEN "ok" ELSE "fail", "reportFeedback",
                           "resolved", NoThrown, chatCalls[k])
    /\ UNCHANGED <<chat, chatIssued, now>>
    /\ UNCHANGED complaintVars

chatClearError ==
    /\ ChatBudget
    /\ chat' = chatbotReducer(chat, "CLEAR_ERROR", Null)
    /\ chatEv' = ChatEvent("sync", "clearError", "none", NoThrown, NoChatRequest)
    /\ UNCHANGED <<chatCalls, now>>
    /\ UNCHANGED complaintVars

\* RESET_CONVERSATION; initializeChatbot()
resetConversation ==
    /\ ChatBudget
    /\ chat' = chatbotReducer(chat, "RESET_CONVERSATION", Null)
    /\ LET req == ChatRequest("initializeChatbot", Null, Null, FALSE, 0)
       IN  /\ ChatAwait(Touched(chatCalls), req)
           /\ chatEv' = ChatEvent("sync", "resetConversation", "none", NoThrown, req)
    /\ UNCHANGED now
    /\ UNCHANGED complaintVars

\* The clock moves on.
Tick ==
    /\ now < MaxTime
    /\ now' = now + 1
    /\ UNCHANGED <<chat, chatCalls, chatIssued, chatEv>>
    /\ UNCHANGED complaintVars

-----------------------------------------------------------------------------
(* The complaint store as a state machine *)

\* A run starts from the store as constructed, or from a store that earlier,
\* completed fetches have loaded (the reducer applied to their responses):
\*   - one pending complaint, Stats fetched;
\*   - two complaints, Stats fetched, complaint 1 opened.
LoadedOne ==
    SetStats(
        SetComplaints(complaintInitialState, << [id |-> 1, status |-> "pending"] >>),
        [total |-> Num(1), pending |-> Num(1), resolved |-> Num(0), rejected |-> Num(0)])

LoadedAll ==
    SetCurrentComplaint(
        SetStats(
            SetComplaints(complaintInitialState,
                          << [id |-> 1, status |-> "pending"],
                             [id |-> 2, status |-> "in-progress"] >>),
            [total |-> Num(2), pending |-> Num(1), resolved |-> Num(0), rejected |-> Num(0)]),
        [id |-> 1, status |-> "pending"])

StartStates == { complaintInitialState, LoadedOne, LoadedAll }

ChatInit ==
    /\ chat = chatbotInitialState
    /\ chatCalls = << >>
    /\ chatIssued = 0
    /\ chatEv = ChatEvent("init", "none", "none", NoThrown, NoChatRequest)
    /\ now = 0

Init ==
    /\ state \in StartStates
    /\ calls = << >>
    /\ issued = 0
    /\ removed = {}
    /\ ev = Event("init", "none", "none", Null, NoRequest, NoComplaint, NoResponse)
    /\ subBase = StatsBase(state)
    /\ subCount = 0
    /\ ChatInit

Next ==
    \/ \E f \in FilterArgs : fetchComplaintsCall(f)
    \/ \E k \in InFlight, r \in ListResponses : fetchComplaintsOk(k, r)
    \/ \E k \in InFlight, b \in FailureBodies : fetchComplaintsFail(k, b)
    \/ \E id \in Ids : fetchComplaintByIdCall(id)
    \/ \E k \in InFlight, c \in Complaints : fetchComplaintByIdOk(k, c)
    \/ \E k \in InFlight, b \in FailureBodies : fetchComplaintByIdFail(k, b)
    \/ submitComplaintCall
    \/ \E k \in InFlight, c \in Complaints : submitComplaintOk(k, c)
    \/ \E k \in InFlight, b \in FailureBodies : submitComplaintFail(k, b)
    \/ \E id \in Ids : updateComplaintCall(id)
    \/ \E k \in InFlight, c \in Complaints : updateComplaintOk(k, c)
    \/ \E k \in InFlight, b \in FailureBodies : updateComplaintFail(k, b)
    \/ \E id \in Ids : deleteComplaintCall(id)
    \/ \E k \in InFlight : deleteComplaintOk(k)
    \/ \E k \in InFlight, b \in FailureBodies : deleteComplaintFail(k, b)
    \/ fetchStatsCall
    \/ \E k \in InFlight, r \in RemoteStats : fetchStatsOk(k, r)
    \/ \E k \in InFlight, b \in FailureBodies : fetchStatsFail(k, b)
    \/ \E f \in FilterArgs : searchComplaintsCall(f)
    \/ \E k \in InFlight, r \in SearchResponses : searchComplaintsOk(k, r)
    \/ \E k \in InFlight, b \in FailureBodies : searchComplaintsFail(k, b)
    \/ \E p \in FilterPatches : setFilters(p)
    \/ clearError
    \/ resetState

Spec == Init /\ [][Next]_vars

-----------------------------------------------------------------------------
(* The chatbot store as a state machine *)

ChatStart ==
    /\ state = complaintInitialState
    /\ calls = << >>
    /\ issued = 0
    /\ removed = {}
    /\ ev = Event("init", "none", "none", Null, NoRequest, NoComplaint, NoResponse)
    /\ subBase = StatsBase(state)
    /\ subCount = 0
    /\ ChatInit

ChatNext ==
    \/ initializeChatbotCall
    \/ \E k \in ChatInFlight, d \in CapabilityData : initializeChatbotOk(k, d)
    \/ \E k \in ChatInFlight : initializeChatbotFetchFail(k)
    \/ \E text \in Texts : sendMessageCall(text)
    \/ \E k \in ChatInFlight, r \in ChatResponses : sendMessageOk(k, r)
    \/ \E k \in ChatInFlight, b \in ChatFailureBodies : sendMessageFail(k, b)
    \/ \E m \in {Null, "hello"} : startNewConversationCall(m)
    \/ \E k \in ChatInFlight, id \in {Null, "conv-2"} : startNewConversationOk(k, id)
    \/ \E k \in ChatInFlight : startNewConversationFail(k)
    \/ endConversationCall
    \/ \E k \in ChatInFlight, notified \in BOOLEAN : endConversationResolve(k, notified)
    \/ endConversationLocal
    \/ getConversationHistoryCall
    \/ \E k \in ChatInFlight : getConversationHistoryOk(k, <<"an earlier message">>)
    \/ \E k \in ChatInFlight : getConversationHistoryFail(k)
    \/ getComplaintSuggestionsCall
    \/ \E k \in ChatInFlight : getComplaintSuggestionsOk(k, <<"Add the location">>)
    \/ \E k \in ChatInFlight : getComplaintSuggestionsFail(k)
    \/ reportFeedbackCall
    \/ \E k \in ChatInFlight, reported \in BOOLEAN : reportFeedbackResolve(k, reported)
    \/ chatClearError
    \/ resetConversation

ChatSpec == ChatStart /\ [][ChatNext]_vars

\* The chatbot store with a clock that moves.
ChatClockNext == ChatNext \/ Tick

ChatClockSpec == ChatStart /\ [][ChatClockNext]_vars

-----------------------------------------------------------------------------
(* Both stores *)

\* The two stores share no state, so a run of the application projects onto
\* a run of each store.  A behaviour here exercises one of the stores and
\* leaves the other as constructed.
ComplaintIdle == state = complaintInitialState /\ issued = 0

ChatIdle == chat = chatbotInitialState /\ chatIssued = 0

StoresNext ==
    \/ ChatIdle /\ Next
    \/ ComplaintIdle /\ ChatNext

\* Both stores start as constructed.
StoresSpec == ChatStart /\ [][StoresNext]_vars

-----------------------------------------------------------------------------
(* Properties of the complaint store (checked under Spec) *)

StatFields == {"total", "pending", "resolved", "rejected"}

RemoveDone == ev.kind = "ok" /\ ev.op = "deleteComplaint"

\* The entry the resolved remove found in the list it started from (0: none)
RemovedIndex == FindIndex(ev.pre.complaints, ev.id)

\* C1: after N successful submits since the last remove, reset or fetchStats
\* (in any order of their responses), Stats.total and Stats.pending are each
\* the value they had then plus N.
C1_SubmitsAddUp ==
    /\ state.stats.total.k = "num"
    /\ state.stats.total.n = subBase.total.n + subCount
    /\ state.stats.pending.k = "num"
    /\ state.stats.pending.n = subBase.pending.n + subCount

\* Two submits have succeeded on a store that held total 2, pending 1.
C1_Witness ==
    /\ subCount = 2
    /\ subBase = [total |-> Num(2), pending |-> Num(1)]
    /\ state.stats.total = Num(4)
    /\ state.stats.pending = Num(3)

\* C2: in every reachable state each of Stats.total, Stats.pending,
\* Stats.resolved and Stats.rejected is a number >= 0.
C2_StatsNonNegative ==
    \A f \in StatFields : state.stats[f].k = "num" /\ state.stats[f].n >= 0

\* C3: a successful remove of a complaint present in the list with status s
\* (a status that has a Stats bucket) leaves Stats.total = max(0, old - 1)
\* and Stats[s] = max(0, old - 1).
C3_RemoveClampsBoth ==
    (RemoveDone /\ RemovedIndex # 0
        /\ ev.pre.complaints[RemovedIndex].status \in StatFields)
    => LET s == ev.pre.complaints[RemovedIndex].status
       IN  /\ state.stats.total = JsMax0(JsMinus1(ev.pre.stats.total))
           /\ state.stats[s] = JsMax0(JsMinus1(ev.pre.stats[s]))

\* C4: a successful remove of an id that is not in the held list keeps
\* Stats.pending, Stats.resolved and Stats.rejected, and adds or changes no
\* other bucket of Stats.
C4_AbsentRemoveKeepsBuckets ==
    (RemoveDone /\ RemovedIndex = 0)
    => /\ DOMAIN state.stats = DOMAIN ev.pre.stats
       /\ \A f \in DOMAIN ev.pre.stats \ {"total"} :
              state.stats[f] = ev.pre.stats[f]

\* C5: a second successful remove of an id whose remove has already succeeded
\* (and that the list no longer holds) leaves the list unchanged and takes no
\* count of Stats from >= 0 to below zero.
C5_SecondRemoveHarmless ==
    (RemoveDone /\ ev.again /\ RemovedIndex = 0)
    => /\ state.complaints = ev.pre.complaints
       /\ \A f \in DOMAIN ev.pre.stats :
              (ev.pre.stats[f].k = "num" /\ ev.pre.stats[f].n >= 0)
              => ~(state.stats[f].k = "num" /\ state.stats[f].n < 0)

\* C9: when fetchAll or search succeeds, the list is exactly the sequence of
\* complaints in the response, and empty if the response carries none:
\* nothing of the prior list is kept and nothing is filtered out.
C9_ListReplaced ==
    (ev.kind = "ok" /\ ev.op \in {"fetchComplaints", "searchComplaints"})
    => state.complaints =
           (IF ev.resp.hasComplaints THEN ev.resp.complaints ELSE <<>>)

\* A fetchAll filtered on "pending" answered with a complaint that is not
\* pending, over a list whose first entry the response does not carry.
C9_Witness ==
    /\ ev.kind = "ok" /\ ev.op = "fetchComplaints" /\ ev.filt = "pending"
    /\ ev.pre.complaints # <<>>
    /\ state.complaints # <<>>
    /\ \A i \in 1..Len(state.complaints) :
           /\ state.complaints[i].status # "pending"
           /\ state.complaints[i].id # ev.pre.complaints[1].id

FailingOps ==
    {"fetchComplaints", "fetchComplaintById", "submitComplaint",
     "updateComplaint", "deleteComplaint", "searchComplaints"}

\* C10: when the remote call of fetchAll, fetchOne, submit, update, remove or
\* search fails, the resulting state has Error set to a non-null message (the
\* failure's message if it has one, else the operation's default text) and
\* Loading false, and the promise rejects with the failure.
C10_FailureSurfaces ==
    (ev.kind = "fail" /\ ev.op \in FailingOps)
    => /\ state.error # Null
       /\ Truthy(ev.thrown) => state.error = ev.thrown
       /\ ~Truthy(ev.thrown) => state.error = ContextDefault(ev.op)
       /\ state.isLoading = FALSE
       /\ ev.promise = "rejected"

\* A fetchOne failed with a body that has no message: the default text.
C10_Witness ==
    /\ ev.kind = "fail" /\ ev.op = "fetchComplaintById"
    /\ ev.thrown = Null
    /\ state.error = "Failed to fetch complaint"
    /\ ~state.isLoading

-----------------------------------------------------------------------------
(* Properties of the chatbot store (checked under ChatSpec) *)

SendResolved == chatEv.op = "sendMessage" /\ chatEv.kind \in {"ok", "fail"}

\* C6 as stated: whenever a sendMessage call resolves, with success or with
\* failure, the transcript is 2 longer than it was when the call was made.
C6_AlwaysPlusTwo ==
    SendResolved => Len(chat.messages) = chatEv.len0 + 2

\* C6: when a sendMessage call resolves, with success or with failure, and no
\* other operation has appended to or reset the transcript since the call, the
\* transcript is 2 longer than it was when the call was made.
C6_PlusTwoWhenAlone ==
    (SendResolved /\ chatEv.alone) => Len(chat.messages) = chatEv.len0 + 2

\* A sendMessage made on a transcript that held the greeting has failed.
C6_Witness ==
    /\ SendResolved /\ chatEv.kind = "fail" /\ chatEv.alone
    /\ chatEv.len0 = 1
    /\ Len(chat.messages) = 3

IsUserMessage(m, text) == m.sender = "user" /\ m.text = text /\ ~m.isError

\* C7: sendMessage(text) appends a user message with that text when called;
\* when its remote call fails, one bot message flagged as error is appended
\* whose text is the failure's fallback text if it has one, else the fixed
\* apology (directly after the user message if nothing else touched the
\* transcript); Error is non-null, Typing is false, the promise rejects with
\* the failure.
C7_SendFailure ==
    /\ (chatEv.op = "sendMessage" /\ chatEv.kind = "call")
       => /\ Len(chat.messages) = Len(chatEv.pre.messages) + 1
          /\ SubSeq(chat.messages, 1, Len(chatEv.pre.messages)) = chatEv.pre.messages
          /\ IsUserMessage(chat.messages[Len(chat.messages)], chatEv.text)
    /\ (chatEv.op = "sendMessage" /\ chatEv.kind = "fail")
       => LET n == Len(chat.messages)
          IN  /\ n = Len(chatEv.pre.messages) + 1
              /\ SubSeq(chat.messages, 1, n - 1) = chatEv.pre.messages
              /\ chat.messages[n].sender = "bot"
              /\ chat.messages[n].isError
              /\ Truthy(chatEv.thrown.response)
                   => chat.messages[n].text = chatEv.thrown.response
              /\ ~Truthy(chatEv.thrown.response)
                   => chat.messages[n].text = Apology
              /\ chatEv.alone
                   => /\ n = chatEv.len0 + 2
                      /\ IsUserMessage(chat.messages[n - 1], chatEv.text)
              /\ chat.error # Null
              /\ chat.isTyping = FALSE
              /\ chatEv.promise = "rejected"

\* sendMessage("I want to file a complaint") on an empty transcript failed
\* with a body that carries a fallback text.
C7_Witness ==
    /\ chatEv.op = "sendMessage" /\ chatEv.kind = "fail" /\ chatEv.alone
    /\ chatEv.thrown.response = "fallback reply"
    /\ Len(chat.messages) = 2
    /\ IsUserMessage(chat.messages[1], "I want to file a complaint")
    /\ chat.messages[2].text = "fallback reply"
    /\ chat.messages[2].isError

\* C8: when initialize runs and the capability fetch fails, Connected is
\* false afterwards and no greeting has been appended.
C8_FetchFailureDisconnects ==
    (chatEv.op = "initializeChatbot" /\ chatEv.kind = "fail")
    => /\ chat.isConnected = FALSE
       /\ chat.messages = chatEv.pre.messages


-----------------------------------------------------------------------------
(* Loading, advisory failures and filters (checked under Spec) *)

\* C11: each of fetchAll, fetchOne, submit, update, remove and search has
\* Loading = true and Error = null when it reaches its remote request, and
\* Loading = false when it has resolved successfully.
C11_LoadingBrackets ==
    /\ (ev.kind = "call" /\ ev.op \in FailingOps)
       => (state.isLoading = TRUE /\ state.error = Null)
    /\ (ev.kind = "ok" /\ ev.op \in FailingOps)
       => state.isLoading = FALSE

\* The only operation invoked, a fetchAll, has resolved successfully.
C11_Witness ==
    /\ ev.kind = "ok" /\ ev.op = "fetchComplaints"
    /\ issued = 1 /\ InFlight = {}
    /\ state.isLoading = FALSE

AdvisoryChatOps == {"initializeChatbot", "endConversation", "reportFeedback"}

\* C12: a step in which the remote call of fetchStats, endConversation or
\* reportFeedback, or the capability fetch of initialize, fails resolves the
\* operation's promise and sets no Error (Error keeps its value or is reset
\* to null); a failed fetchStats leaves Stats, Loading and Error as they were.
C12_AdvisoryAbsorbed ==
    [][ /\ (ev' # ev /\ ev'.kind = "fail" /\ ev'.op = "fetchStats")
           => /\ ev'.promise = "resolved"
              /\ state'.stats = state.stats
              /\ state'.isLoading = state.isLoading
              /\ state'.error = state.error
        /\ (chatEv' # chatEv /\ chatEv'.kind = "fail" /\ chatEv'.op \in AdvisoryChatOps)
           => /\ chatEv'.promise = "resolved"
              /\ chat'.error \in {chat.error, Null}
      ]_vars

\* A fetchStats has failed while another operation keeps Loading raised.
C12_Witness ==
    /\ ev.kind = "fail" /\ ev.op = "fetchStats" /\ ev.promise = "resolved"
    /\ state.isLoading = TRUE
    /\ state.error = Null

\* C13: a setFilters(partial) step issues no remote call; afterwards Filters
\* has the given keys with the given values and every other key as before;
\* complaints, current complaint, Stats, Pagination, Loading and Error are
\* unchanged; and applying the same payload to the result changes nothing.
C13_SetFiltersLocal ==
    [][ \A p \in FilterPatches :
          setFilters(p)
          => /\ calls' = calls
             /\ DOMAIN state'.filters = DOMAIN state.filters
             /\ \A key \in DOMAIN state.filters :
                    state'.filters[key] =
                        IF key \in DOMAIN p THEN p[key] ELSE state.filters[key]
             /\ state'.complaints = state.complaints
             /\ state'.currentComplaint = state.currentComplaint
             /\ state'.stats = state.stats
             /\ state'.pagination = state.pagination
             /\ state'.isLoading = state.isLoading
             /\ state'.error = state.error
             /\ complaintReducer(state', "SET_FILTERS", p) = state'
      ]_vars

\* Two payloads have been merged over a loaded store: the search term of the
\* first is kept, the status of the second overrides.
C13_Witness ==
    /\ ev.kind = "sync" /\ ev.op = "setFilters"
    /\ state.filters = [status |-> "pending", category |-> "",
                        priority |-> "", searchTerm |-> "leak"]
    /\ state.complaints # <<>>

-----------------------------------------------------------------------------
(* Further properties of the chatbot store (checked under ChatSpec) *)

\* A sendMessage call has been issued and has not yet resolved.
AwaitingReply == \E k \in ChatInFlight : chatCalls[k].op = "sendMessage"

\* C14: in every reachable state Typing is true if and only if at least one
\* sendMessage call has been issued and has not yet resolved.
C14_TypingIsAwaiting == chat.isTyping = AwaitingReply

\* C15: when startConversation was called with an initial message and the
\* remote returns a conversation id X, the sendMessage it performs forwards
\* the message to the remote with conversationId = X.
C15_InitialMessageUnderNewId ==
    [][ \A k \in ChatInFlight, X \in {"conv-2"} :
          (startNewConversationOk(k, X) /\ Truthy(chatCalls[k].text))
          => /\ k \in DOMAIN chatCalls'
             /\ chatCalls'[k].op = "sendMessage"
             /\ chatCalls'[k].text = chatCalls[k].text
             /\ chatCalls'[k].convId = X
      ]_vars

\* C16: every transition leaves the transcript unchanged, appends exactly
\* one message at its end, or resets it to empty.
C16_AppendOnly ==
    [][ \/ chat'.messages = chat.messages
        \/ /\ Len(chat'.messages) = Len(chat.messages) + 1
           /\ SubSeq(chat'.messages, 1, Len(chat.messages)) = chat.messages
        \/ chat'.messages = <<>>
      ]_vars

\* A reply or error message has been appended behind the greeting and a user
\* message.
C16_Witness ==
    /\ chatEv.op = "sendMessage" /\ chatEv.kind \in {"ok", "fail"}
    /\ Len(chatEv.pre.messages) = 2
    /\ Len(chat.messages) = 3
    /\ chat.messages[1].sender = "bot"
    /\ chat.messages[2].sender = "user"
    /\ chat.messages[3].sender = "bot"

-----------------------------------------------------------------------------
(* List operations of the complaint store (checked under Spec) *)

\* The current complaint has the given id.
CurrentHasId(current, id) == current # NoComplaint /\ current.id = id

\* C17: after a successful update returning c, every list entry whose id is
\* c.id is c and every other entry is as before, at the same position; the
\* current complaint is c if its id was c.id and is unchanged otherwise;
\* Stats are unchanged.
C17_UpdateReplaces ==
    (ev.kind = "ok" /\ ev.op = "updateComplaint")
    => /\ Len(state.complaints) = Len(ev.pre.complaints)
       /\ \A i \in 1..Len(ev.pre.complaints) :
              state.complaints[i] =
                  IF ev.pre.complaints[i].id = ev.c.id THEN ev.c
                  ELSE ev.pre.complaints[i]
       /\ state.currentComplaint =
              IF CurrentHasId(ev.pre.currentComplaint, ev.c.id) THEN ev.c
              ELSE ev.pre.currentComplaint
       /\ state.stats = ev.pre.stats

\* Complaint 1, pending, first of two entries and the current complaint, has
\* been updated to resolved.
C17_Witness ==
    /\ ev.kind = "ok" /\ ev.op = "updateComplaint"
    /\ ev.pre.complaints = << [id |-> 1, status |-> "pending"],
                              [id |-> 2, status |-> "in-progress"] >>
    /\ ev.pre.currentComplaint = [id |-> 1, status |-> "pending"]
    /\ state.complaints = << [id |-> 1, status |-> "resolved"],
                             [id |-> 2, status |-> "in-progress"] >>
    /\ state.currentComplaint = [id |-> 1, status |-> "resolved"]

\* The entries of a list whose id is not the given one, in their order.
Without(list, id) == SelectSeq(list, LAMBDA x : x.id # id)

\* C18: after a successful submit returning c the list is c followed by the
\* previous list in its previous order; a successful update keeps every
\* position's id, and a successful remove keeps the remaining entries in
\* their relative order.
C18_ServerOrderKept ==
    /\ (ev.kind = "ok" /\ ev.op = "submitComplaint")
       => state.complaints = <<ev.c>> \o ev.pre.complaints
    /\ (ev.kind = "ok" /\ ev.op = "updateComplaint")
       => /\ Len(state.complaints) = Len(ev.pre.complaints)
          /\ \A i \in 1..Len(ev.pre.complaints) :
                 state.complaints[i].id = ev.pre.complaints[i].id
    /\ RemoveDone
       => state.complaints = Without(ev.pre.complaints, ev.id)

\* A resolved complaint has been submitted to a list of two.
C18_Witness ==
    /\ ev.kind = "ok" /\ ev.op = "submitComplaint"
    /\ state.complaints = << [id |-> 1, status |-> "resolved"],
                             [id |-> 1, status |-> "pending"],
                             [id |-> 2, status |-> "in-progress"] >>

\* C19: after a successful remove(id) the list holds no entry with that id
\* and every other entry as before; the current complaint is null if it had
\* that id and is unchanged otherwise.
C19_RemoveDrops ==
    RemoveDone
    => /\ \A i \in 1..Len(state.complaints) : state.complaints[i].id # ev.id
       /\ \A c \in Complaints :
              c.id # ev.id =>
                  Len(SelectSeq(state.complaints, LAMBDA x : x = c))
                      = Len(SelectSeq(ev.pre.complaints, LAMBDA x : x = c))
       /\ Len(state.complaints) <= Len(ev.pre.complaints)
       /\ state.currentComplaint =
              IF CurrentHasId(ev.pre.currentComplaint, ev.id) THEN NoComplaint
              ELSE ev.pre.currentComplaint

\* Complaint 1, the current complaint and first of two entries, was removed.
C19_Witness ==
    /\ RemoveDone /\ ev.id = 1
    /\ ev.pre.currentComplaint = [id |-> 1, status |-> "pending"]
    /\ Len(ev.pre.complaints) = 2
    /\ state.complaints = << [id |-> 2, status |-> "in-progress"] >>
    /\ state.currentComplaint = NoComplaint

\* C20: after a successful fetchOne the current complaint is exactly the
\* complaint the remote returned, and the list is untouched; so when only
\* successful submits came before and the remote returns the complaint the
\* last submit prepended, the current complaint equals that list entry.
C20_FetchOneRoundTrip ==
    (ev.kind = "ok" /\ ev.op = "fetchComplaintById")
    => /\ state.currentComplaint = ev.c
       /\ state.complaints = ev.pre.complaints
       /\ (subCount >= 1 /\ issued = subCount + 1
             /\ ev.c = Head(ev.pre.complaints))
          => state.currentComplaint = Head(state.complaints)

\* submit returned complaint 1 as resolved, then fetchOne(1) returned the
\* same complaint, over a store whose current complaint was another version.
C20_Witness ==
    /\ ev.kind = "ok" /\ ev.op = "fetchComplaintById" /\ ev.id = 1
    /\ subCount = 1 /\ issued = 2
    /\ ev.c = [id |-> 1, status |-> "resolved"]
    /\ ev.pre.currentComplaint = [id |-> 1, status |-> "pending"]
    /\ Head(state.complaints) = [id |-> 1, status |-> "resolved"]
    /\ state.currentComplaint = Head(state.complaints)

-----------------------------------------------------------------------------
(* The current complaint and overlapping operations (checked under Spec) *)

\* C21: in every reachable state where the current complaint is non-null,
\* the list contains an entry with the same id and that entry equals the
\* current complaint.
C21_CurrentInList ==
    state.currentComplaint # NoComplaint
    => \E i \in 1..Len(state.complaints) :
           /\ state.complaints[i].id = state.currentComplaint.id
           /\ state.complaints[i] = state.currentComplaint

\* While call k, of the given operation, is in flight, the last step was the
\* successful resolution of another call of that operation on the same id: the
\* two were in flight at once, and k's response will arrive after the other's.
Overlapped(k, op) ==
    /\ calls[k].op = op
    /\ ev.kind = "ok" /\ ev.op = op /\ ev.id = calls[k].id

\* C22: of two fetchAll calls in flight at once, or two update calls on the
\* same id in flight at once, the response that arrives last decides the
\* list, whichever call was issued first: the list is the last fetchAll
\* response's list, and the entries with the updated id are the last update
\* response's complaint.
C22_LastArrivalWins ==
    [][ \A k \in InFlight :
          /\ Overlapped(k, "fetchComplaints")
             => \A r \in ListResponses :
                    fetchComplaintsOk(k, r) => state'.complaints = ListPayload(r)
          /\ Overlapped(k, "updateComplaint")
             => \A c \in Complaints :
                    (c.id = calls[k].id /\ updateComplaintOk(k, c))
                    => /\ Len(state'.complaints) = Len(state.complaints)
                       /\ \A i \in 1..Len(state.complaints) :
                              state'.complaints[i] =
                                  IF state.complaints[i].id = c.id THEN c
                                  ELSE state.complaints[i]
      ]_vars

\* Two fetchAll calls were in flight at once; the second was answered first,
\* without complaints and with pagination; the first, superseded, was
\* answered last and its complaints are the list.
C22_Witness ==
    /\ ev.kind = "ok" /\ ev.op = "fetchComplaints"
    /\ issued = 2 /\ ev.superseded /\ InFlight = {}
    /\ state.pagination = PaginationReply
    /\ ev.pre.complaints = <<>>
    /\ ev.resp.hasComplaints
    /\ state.complaints = ev.resp.complaints
    /\ state.complaints # <<>>

-----------------------------------------------------------------------------
(* Replies, resets and message ids of the chatbot store *)

\* The last step was a successful sendMessage resolution with response r.
RepliedWith(r) ==
    /\ chatEv.kind = "ok" /\ chatEv.op = "sendMessage"
    /\ chat = SendSucceed(chatEv.pre, r)

\* C23: when the remote call of a sendMessage has succeeded with response r,
\* one bot message has been appended whose text is r's primary reply field
\* if present and its secondary reply field otherwise; the conversation id
\* is r's if r carries one and suggestions are r's if r carries them,
\* otherwise each has kept its value; Typing is false; Error has not been
\* touched, so a null Error has stayed null.
C23_SendSuccess ==
    (chatEv.kind = "ok" /\ chatEv.op = "sendMessage")
    => /\ \E r \in ChatResponses : RepliedWith(r)
       /\ \A r \in ChatResponses :
              RepliedWith(r)
              => LET n == Len(chat.messages)
                 IN  /\ n = Len(chatEv.pre.messages) + 1
                     /\ SubSeq(chat.messages, 1, n - 1) = chatEv.pre.messages
                     /\ chat.messages[n].sender = "bot"
                     /\ ~chat.messages[n].isError
                     /\ chat.messages[n].text =
                            IF r.message # Null THEN r.message ELSE r.response
                     /\ chat.currentConversationId =
                            IF r.conversationId # Null THEN r.conversationId
                            ELSE chatEv.pre.currentConversationId
                     /\ chat.suggestions =
                            IF r.hasSuggestions THEN r.suggestions
                            ELSE chatEv.pre.suggestions
                     /\ chat.isTyping = FALSE
                     /\ chat.error = chatEv.pre.error
                     /\ chatEv.pre.error = Null => chat.error = Null

\* In conversation "conv-2" a reply without primary field, conversation id
\* and suggestions has arrived: the secondary text is shown, the id is kept.
C23_Witness ==
    /\ chatEv.kind = "ok" /\ chatEv.op = "sendMessage"
    /\ chatEv.pre.isTyping
    /\ Len(chat.messages) = 2
    /\ chat.messages[2].sender = "bot"
    /\ chat.messages[2].text = "other reply"
    /\ chat.currentConversationId = "conv-2"
    /\ chat.suggestions = <<>>
    /\ chat.isTyping = FALSE
    /\ chat.error = Null

\* The last step was the reset that ends an endConversation call: after the
\* notification succeeded ("ok") or failed ("fail"), or without one ("sync").
EndedNow ==
    chatEv.op = "endConversation" /\ chatEv.kind \in {"ok", "fail", "sync"}

\* C24: when endConversation has run its reset, whether the remote
\* notification succeeded, failed or was skipped, the transcript is empty,
\* the conversation id is null, Typing is false, Error is null, suggestions
\* are empty, and capabilities are exactly what they were before the reset.
C24_EndResets ==
    EndedNow
    => /\ chat.messages = <<>>
       /\ chat.currentConversationId = Null
       /\ chat.isTyping = FALSE
       /\ chat.error = Null
       /\ chat.suggestions = <<>>
       /\ chat.capabilities = chatEv.pre.capabilities

\* endConversation has reset a greeted store whose capabilities a fetch had
\* set: the transcript is gone, the fetched capabilities are kept.
C24_Witness ==
    /\ EndedNow
    /\ chatEv.pre.messages # <<>>
    /\ chatEv.pre.capabilities =
           [intentClassification |-> TRUE, sentimentAnalysis |-> TRUE,
            entityExtraction |-> FALSE, multilingual |-> FALSE]
    /\ chat.messages = <<>>
    /\ chat.capabilities = chatEv.pre.capabilities

\* Call k is an initialize invoked on an empty transcript that no operation
\* has touched since, as the one resetConversation performs after its reset.
FreshInitialize(k) ==
    /\ chatCalls[k].op = "initializeChatbot"
    /\ chatCalls[k].len0 = 0
    /\ chatCalls[k].alone

\* The transcript holds the greeting and nothing else, and Connected is true.
GreetedOnly(s) ==
    /\ Len(s.messages) = 1
    /\ s.messages[1].text = Greeting
    /\ s.messages[1].sender = "bot"
    /\ s.isConnected

\* resetConversation resets locally and leaves a fresh initialize in flight.
ResetThenInitialize ==
    resetConversation
    => /\ chat' = ResetConversation(chat)
       /\ chatCalls'[chatIssued + 1].op = "initializeChatbot"
       /\ chatCalls'[chatIssued + 1].len0 = 0
       /\ chatCalls'[chatIssued + 1].alone

C26_IdsMonotonic ==
    \A i \in 2..Len(chat.messages) :
        chat.messages[i].id >= chat.messages[i - 1].id

-----------------------------------------------------------------------------
(* Failures, Loading and Stats of the complaint store (checked under Spec) *)

MutatingOps == {"submitComplaint", "updateComplaint", "deleteComplaint"}

\* C27: submit, update and remove change nothing locally before the remote
\* has confirmed: neither the step that issues the remote call nor the step
\* in which the call fails changes the complaints list, the current complaint
\* or Stats (so a complaint leaves the list only when its delete succeeded).
C27_NoLocalMutationOnFailure ==
    (ev.op \in MutatingOps /\ ev.kind \in {"call", "fail"})
    => /\ state.complaints = ev.pre.complaints
       /\ state.currentComplaint = ev.pre.currentComplaint
       /\ state.stats = ev.pre.stats

\* remove(1) has failed on the loaded store: complaint 1 is still first in
\* the list and current, and Stats are as loaded.
C27_Witness ==
    /\ ev.kind = "fail" /\ ev.op = "deleteComplaint" /\ ev.id = 1
    /\ issued = 1
    /\ state.complaints = << [id |-> 1, status |-> "pending"],
                             [id |-> 2, status |-> "in-progress"] >>
    /\ state.currentComplaint = [id |-> 1, status |-> "pending"]
    /\ state.stats.total = Num(2)
    /\ state.error # Null

\* A call that raised Loading is still awaiting its answer.
LoadingCallInFlight == \E k \in InFlight : calls[k].op \in FailingOps

\* C28: in every reachable state where no fetchAll, fetchOne, submit, update,
\* remove or search call is in flight, Loading is false.
C28_LoadingNotStuck == ~LoadingCallInFlight => state.isLoading = FALSE

\* Of a submit and a fetchStats issued together the submit has failed: only
\* the fetchStats is in flight and Loading is down.
C28_Witness ==
    /\ ev.kind = "fail" /\ ev.op = "submitComplaint"
    /\ issued = 2
    /\ InFlight # {} /\ \A k \in InFlight : calls[k].op = "fetchStats"
    /\ ev.pre.stats = state.stats
    /\ state.isLoading = FALSE

\* C29: a successful remove of a listed complaint whose status is
\* in-progress, on Stats that have exactly the fields total, pending,
\* resolved and rejected, leaves Stats with exactly these four fields and
\* pending, resolved and rejected with their values.
C29_InProgressRemoveTotalOnly ==
    (RemoveDone /\ RemovedIndex # 0
        /\ ev.pre.complaints[RemovedIndex].status = "in-progress"
        /\ DOMAIN ev.pre.stats = StatFields)
    => /\ DOMAIN state.stats = StatFields
       /\ \A f \in StatFields \ {"total"} : state.stats[f] = ev.pre.stats[f]

-----------------------------------------------------------------------------
(* The ended conversation (checked under ChatSpec) *)

\* The step is the call of an operation that opens the conversation again.
ReopeningCall ==
    \/ /\ chatEv'.kind = "call"
       /\ chatEv'.op \in {"sendMessage", "startNewConversation", "initializeChatbot"}
    \/ chatEv'.op = "resetConversation"

\* C30: once endConversation has performed its reset, a step that is not the
\* call of sendMessage, startConversation, initialize or resetConversation
\* leaves the conversation id null and the transcript empty, also when it is
\* the resolution of a sendMessage issued before endConversation.
C30_EndedStaysEnded ==
    [][ (EndedNow /\ ~ReopeningCall)
        => /\ chat'.currentConversationId = Null
           /\ chat'.messages = <<>>
      ]_vars

=============================================================================
